---- MODULE Spec2Model ----
(***************************************************************************)
(* A model of relink.py (find_owned_files_scandir,                         *)
(* replace_files_with_symlinks, replace_one_file_with_symlink) and of      *)
(* rimport's stage_data over a small POSIX file system: directories,       *)
(* regular files and symbolic links, with owner ids, path resolution       *)
(* through symbolic links, and system calls that may fail with OSError.    *)
(*                                                                         *)
(* A path string is a sequence of components.  An absolute path starts     *)
(* with the component "/"; every other sequence is a relative path.        *)
(***************************************************************************)
EXTENDS Integers, Sequences, FiniteSets, TLC

VARIABLES
    fs,             \* the file system: canonical absolute path -> entry
    fs0,            \* the file system when the operation under study started
    inputdata_root, \* argument inputdata_root
    target_dir,     \* argument target_dir (relink) / staging_root (rimport)
    dry_run,        \* argument dry_run
    file_path,      \* argument file_path of replace_one_file_with_symlink
    link_target,    \* local link_target of replace_one_file_with_symlink
    pc,             \* position inside replace_one_file_with_symlink
    failed,         \* system calls of the current operation that raised OSError
    log,            \* set of <<level, message, path>> emitted so far
    item,           \* argument item (item_to_process) of the scan
    user_uid,       \* uid the scan looks for (0: the user name is unknown)
    consumer,       \* who iterates the scan: "list" (list(...)) or "replace"
    stack,          \* the generator frames of find_owned_files_scandir
    yielded,        \* the paths the scan has yielded, in order
    calls,          \* the file paths replace_one_file_with_symlink was called on
    run,            \* position inside replace_files_with_symlinks
    spc,            \* position inside stage_data
    source,         \* argument src of stage_data
    check,          \* argument check of stage_data
    result,         \* outcomes of the finished stage_data calls, in order
    ncalls,         \* number of stage_data calls started
    copies,         \* number of copies stage_data has made
    fs1,            \* the file system when the first stage_data call finished
    batch,          \* the frame of rimport's main(): its list of files and counters
    cli,            \* the frame of relink's main(): its arguments and position
    filelist,       \* the frame of rimport's read_filelist(): text left, lines kept
    other           \* the frame of a second, concurrent replace_one_file_with_symlink

vars == <<fs, fs0, inputdata_root, target_dir, dry_run, file_path, link_target,
          pc, failed, log, item, user_uid, consumer, stack, yielded, calls, run,
          spc, source, check, result, ncalls, copies, fs1, batch, cli,
          filelist, other>>

----------------------------------------------------------------------------
(* Bounds *)

\* number of symbolic links one path resolution may follow (ELOOP beyond it)
MaxLinkHops == 3

\* number of stage_data calls made in a row on the same source
MaxStageCalls == 2

\* length of the longest list of files rimport's main() is run on
MaxBatch == 3

\* length of the longest list of items relink's main() is run on
MaxItems == 2

\* number of characters of the longest list file read_filelist is run on
MaxText == 5

----------------------------------------------------------------------------
(* Users *)

\* uid of the invoking user (pwd.getpwnam(username).pw_uid)
UserUid == 1
\* uid of some other user
OtherUid == 2
\* the result of the lookup of a user name that does not exist (KeyError)
NoUser == -1

\* the exit status of a process that has not ended
Running == -1

----------------------------------------------------------------------------
(* Path strings *)

Root == <<"/">>

\* the process's current working directory
Cwd == Root

IsAbs(p) == Len(p) > 0 /\ p[1] = "/"

\* os.path.join(a, b)
Join(a, b) == IF IsAbs(b) THEN b ELSE a \o b

\* os.path.dirname(p)
Dirname(p) == IF Len(p) = 0 THEN <<>> ELSE SubSeq(p, 1, Len(p) - 1)

\* p + ".tmp"
TmpName(p) == [p EXCEPT ![Len(p)] = @ \o ".tmp"]

\* os.path.normpath on an absolute path: "." dropped, ".." collapsed lexically
RECURSIVE NormFrom(_, _)
NormFrom(done, rest) ==
    IF rest = <<>> THEN done
    ELSE LET c == Head(rest) IN
         IF c = "." THEN NormFrom(done, Tail(rest))
         ELSE IF c = ".."
              THEN NormFrom(IF Len(done) > 1 THEN Dirname(done) ELSE done, Tail(rest))
              ELSE NormFrom(Append(done, c), Tail(rest))

\* os.path.abspath(p)
Abspath(p) == NormFrom(Root, Tail(Join(Cwd, p)))

\* length of the longest common prefix of two sequences
RECURSIVE CommonLen(_, _)
CommonLen(a, b) ==
    IF a = <<>> \/ b = <<>> \/ Head(a) # Head(b) THEN 0
    ELSE 1 + CommonLen(Tail(a), Tail(b))

Ups(n) == [i \in 1..n |-> ".."]

\* os.path.relpath(path, start)
Relpath(path, start) ==
    LET p == Abspath(path)
        s == Abspath(start)
        k == CommonLen(p, s)
        r == Ups(Len(s) - k) \o SubSeq(p, k + 1, Len(p))
    IN IF r = <<>> THEN <<".">> ELSE r

\* a is b or a proper prefix of b
IsPrefix(a, b) == Len(a) <= Len(b) /\ SubSeq(b, 1, Len(a)) = a

\* names that contain the fragment "d651077" of the default staging root
MarkerNames == {"file_d651077.nc"}

\* containment decided by searching the path string for the staging fragment
IsRelativeTo_StringSearch(path, root) ==
    IsPrefix(root, path) \/ \E i \in DOMAIN path : path[i] \in MarkerNames

\* PurePath.is_relative_to: a pure comparison of path components
IsRelativeTo(path, root) == IsPrefix(root, path)

----------------------------------------------------------------------------
(* File system entries *)

File(data, meta, uid) ==
    [kind |-> "file", data |-> data, meta |-> meta, target |-> <<>>, uid |-> uid]
Link(target, uid) ==
    [kind |-> "link", data |-> "", meta |-> "", target |-> target, uid |-> uid]
Dir(uid) ==
    [kind |-> "dir", data |-> "", meta |-> "", target |-> <<>>, uid |-> uid]

Remove(f, p) == [q \in DOMAIN f \ {p} |-> f[q]]
Put(f, p, e) == [q \in DOMAIN f \cup {p} |-> IF q = p THEN e ELSE f[q]]

\* Path resolution (path_resolution(7)).  cur is a canonical directory, rest
\* the components still to walk.  The result is [ok, path]: ok is FALSE when
\* a component other than the last is missing or not a directory, or when too
\* many links are followed; otherwise path is the canonical path reached, which
\* is missing from the file system when only the last component does not exist.
RECURSIVE Walk(_, _, _, _, _)
Walk(f, cur, rest, followLast, hops) ==
    IF rest = <<>> THEN [ok |-> TRUE, path |-> cur]
    ELSE
      LET c    == Head(rest)
          more == Tail(rest)
          nxt  == Append(cur, c)
      IN
      IF c = "." THEN Walk(f, cur, more, followLast, hops)
      ELSE IF c = ".."
        THEN Walk(f, IF Len(cur) > 1 THEN Dirname(cur) ELSE cur, more, followLast, hops)
      ELSE IF nxt \notin DOMAIN f
        THEN [ok |-> more = <<>>, path |-> nxt]
      ELSE IF f[nxt].kind = "link" /\ (more # <<>> \/ followLast)
        THEN IF hops = 0 THEN [ok |-> FALSE, path |-> nxt]
             ELSE LET t == f[nxt].target IN
                  IF IsAbs(t)
                  THEN Walk(f, Root, Tail(t) \o more, followLast, hops - 1)
                  ELSE Walk(f, cur, t \o more, followLast, hops - 1)
      ELSE IF more # <<>>
        THEN IF f[nxt].kind = "dir" THEN Walk(f, nxt, more, followLast, hops)
             ELSE [ok |-> FALSE, path |-> nxt]
      ELSE [ok |-> TRUE, path |-> nxt]

\* resolution of a path string, following (stat) or not (lstat) a final link
Resolve(f, p, followLast) ==
    IF p = <<>> THEN [ok |-> FALSE, path |-> <<>>]
    ELSE IF IsAbs(p) THEN Walk(f, Root, Tail(p), followLast, MaxLinkHops)
    ELSE Walk(f, Cwd, p, followLast, MaxLinkHops)

Stat(f, p)  == Resolve(f, p, TRUE)
Lstat(f, p) == Resolve(f, p, FALSE)

Found(f, r) == r.ok /\ r.path \in DOMAIN f

\* os.path.exists, os.path.lexists, os.path.islink, os.path.isfile, os.path.isdir
Exists(f, p)  == Found(f, Stat(f, p))
Lexists(f, p) == Found(f, Lstat(f, p))
Islink(f, p)  == Found(f, Lstat(f, p)) /\ f[Lstat(f, p).path].kind = "link"
Isfile(f, p)  == Found(f, Stat(f, p)) /\ f[Stat(f, p).path].kind = "file"
Isdir(f, p)   == Found(f, Stat(f, p)) /\ f[Stat(f, p).path].kind = "dir"

\* the entry a path string names, without following a final link
EntryAt(f, p) == f[Lstat(f, p).path]

\* os.readlink
Readlink(f, p) == f[Lstat(f, p).path].target

\* os.path.realpath / Path.resolve of an existing path
Realpath(f, p) == Stat(f, p).path

----------------------------------------------------------------------------
(* System calls.  Each returns [ok, fs]: ok is FALSE when the call raises  *)
(* OSError, and then fs is the unchanged file system.                      *)

Fail(f) == [ok |-> FALSE, fs |-> f]
Done(f) == [ok |-> TRUE, fs |-> f]

\* os.rename(src, dst) for a source that is not a directory: replaces an
\* existing destination unless it is a directory
Rename(f, src, dst) ==
    LET s == Lstat(f, src)
        d == Lstat(f, dst)
    IN IF ~Found(f, s) \/ ~d.ok THEN Fail(f)
       ELSE IF f[s.path].kind = "dir" THEN Fail(f)
       ELSE IF d.path \in DOMAIN f /\ f[d.path].kind = "dir" THEN Fail(f)
       ELSE IF d.path = s.path THEN Done(f)
       ELSE Done(Put(Remove(f, s.path), d.path, f[s.path]))

\* os.symlink(target, linkpath), the link being owned by uid
Symlink(f, target, linkpath, uid) ==
    LET d == Lstat(f, linkpath)
    IN IF ~d.ok \/ d.path \in DOMAIN f THEN Fail(f)
       ELSE Done(Put(f, d.path, Link(target, uid)))

\* os.remove(p)
Unlink(f, p) ==
    LET d == Lstat(f, p)
    IN IF ~Found(f, d) \/ f[d.path].kind = "dir" THEN Fail(f)
       ELSE Done(Remove(f, d.path))

\* os.mkdir(p)
Mkdir(f, p, uid) ==
    LET d == Lstat(f, p)
    IN IF ~d.ok \/ d.path \in DOMAIN f THEN Fail(f)
       ELSE Done(Put(f, d.path, Dir(uid)))

\* os.makedirs(p, exist_ok=True)
RECURSIVE Makedirs(_, _, _)
Makedirs(f, p, uid) ==
    IF p = <<>> \/ p = Root THEN (IF Isdir(f, p) THEN Done(f) ELSE Fail(f))
    ELSE LET head == Dirname(p)
             up   == IF head # <<>> /\ ~Exists(f, head)
                     THEN Makedirs(f, head, uid) ELSE Done(f)
         IN IF ~up.ok THEN Fail(f)
            ELSE LET m == Mkdir(up.fs, p, uid)
                 IN IF m.ok THEN m
                    ELSE IF Isdir(up.fs, p) THEN Done(up.fs) ELSE Fail(f)

----------------------------------------------------------------------------
(* Logging *)

Logged(level, msg, path) == log' = log \cup {<<level, msg, path>>}

\* the name under which a failing system call is recorded in "failed": the
\* step itself when the call fails for an outside reason (permissions, I/O),
\* the step with ":tree" when it fails on the tree as the model holds it
\* (the path is missing, the name is taken)
Mark(step, fault) == IF fault THEN step ELSE step \o ":tree"

----------------------------------------------------------------------------
(* replace_one_file_with_symlink *)

\* the variables of the scan and of stage_data
scanVars  == <<item, user_uid, consumer, stack, yielded, calls, run>>
stageVars == <<spc, source, check, result, ncalls, copies, fs1>>
argVars   == <<inputdata_root, target_dir, dry_run>>
mainVars  == <<batch, cli>>
restVars  == <<filelist, other>>

\* the link target computed from the file name alone
LinkTarget_Flat(root, target, path) == Join(target, <<path[Len(path)]>>)

\* link_target = os.path.join(target_dir, os.path.relpath(file_path, inputdata_root))
LinkTarget(root, target, path) == Join(target, Relpath(path, root))

\* the existence test left out
TargetExists_Always(f, t) == TRUE

\* the test that decides whether there is anything to link to
TargetExists(f, t) == Exists(f, t)

\* the dry_run argument ignored
IsDryRun_Ignored(d) == FALSE

\* the test that decides whether the call only reports what it would do
IsDryRun(d) == d

\* lines 230-254: log the file, compute link_target, return if it is missing
\* or on dry_run
ReplaceStart ==
    /\ pc = "start"
    /\ LET t     == LinkTarget(inputdata_root, target_dir, file_path)
           found == {<<"INFO", "Found owned file", file_path>>}
       IN
       /\ link_target' = t
       /\ IF ~TargetExists(fs, t)
          THEN /\ log' = log \cup found
                       \cup {<<"WARNING", "Corresponding file not found", file_path>>}
               /\ pc' = "done"
          ELSE IF IsDryRun(dry_run)
          THEN /\ log' = log \cup found
                       \cup {<<"INFO", "[DRY RUN] Would create symbolic link", file_path>>}
               /\ pc' = "done"
          ELSE /\ log' = log \cup found
               /\ pc' = "rename"
    /\ UNCHANGED <<fs, fs0, file_path, failed, argVars, scanVars, stageVars, mainVars, restVars>>

\* the return after the error message left out
RenameErrorPc_FallsThrough == "makedirs"

\* lines 259-262: except OSError: log the error and return
RenameErrorPc == "done"

\* lines 257-262: os.rename(link_name, link_name + ".tmp")
ReplaceRename ==
    /\ pc = "rename"
    /\ \E fault \in BOOLEAN :
         LET r == Rename(fs, file_path, TmpName(file_path)) IN
         IF fault \/ ~r.ok
         THEN /\ failed' = failed \cup {Mark("rename", fault)}
              /\ Logged("ERROR", "Error deleting file", file_path)
              /\ pc' = RenameErrorPc
              /\ fs' = fs
         ELSE /\ fs' = r.fs
              /\ Logged("INFO", "Deleted original file", file_path)
              /\ pc' = "makedirs"
              /\ failed' = failed
    /\ UNCHANGED <<fs0, file_path, link_target, argVars, scanVars, stageVars, mainVars, restVars>>

\* line 267: os.makedirs(os.path.dirname(link_name), exist_ok=True)
ReplaceMakedirs ==
    /\ pc = "makedirs"
    /\ \E fault \in BOOLEAN :
         LET r == Makedirs(fs, Dirname(file_path), UserUid) IN
         IF fault \/ ~r.ok
         THEN /\ failed' = failed \cup {Mark("makedirs", fault)}
              /\ pc' = "restore"
              /\ fs' = fs
         ELSE /\ fs' = r.fs
              /\ pc' = "symlink"
              /\ failed' = failed
    /\ UNCHANGED <<fs0, file_path, link_target, log, argVars, scanVars, stageVars, mainVars, restVars>>

\* line 268: os.symlink(link_target, link_name)
ReplaceSymlink ==
    /\ pc = "symlink"
    /\ \E fault \in BOOLEAN :
         LET r == Symlink(fs, link_target, file_path, UserUid) IN
         IF fault \/ ~r.ok
         THEN /\ failed' = failed \cup {Mark("symlink", fault)}
              /\ pc' = "restore"
              /\ fs' = fs
         ELSE /\ fs' = r.fs
              /\ pc' = "remove"
              /\ failed' = failed
    /\ UNCHANGED <<fs0, file_path, link_target, log, argVars, scanVars, stageVars, mainVars, restVars>>

\* lines 269-270: os.remove(link_name + ".tmp")
ReplaceRemove ==
    /\ pc = "remove"
    /\ \E fault \in BOOLEAN :
         LET r == Unlink(fs, TmpName(file_path)) IN
         IF fault \/ ~r.ok
         THEN /\ failed' = failed \cup {Mark("remove", fault)}
              /\ pc' = "restore"
              /\ fs' = fs
              /\ log' = log
         ELSE /\ fs' = r.fs
              /\ Logged("INFO", "Created symbolic link", file_path)
              /\ pc' = "done"
              /\ failed' = failed
    /\ UNCHANGED <<fs0, file_path, link_target, argVars, scanVars, stageVars, mainVars, restVars>>

\* the rename back left out
RestoreOriginal_Skipped(f, p) == Done(f)

\* line 272: os.rename(link_name + ".tmp", link_name)
RestoreOriginal(f, p) == Rename(f, TmpName(p), p)

\* lines 271-273: except OSError: os.rename(link_name + ".tmp", link_name).
\* An OSError of this rename leaves the function as an exception.
ReplaceRestore ==
    /\ pc = "restore"
    /\ \E fault \in BOOLEAN :
         LET r == RestoreOriginal(fs, file_path) IN
         IF fault \/ ~r.ok
         THEN /\ failed' = failed \cup {Mark("restore", fault)}
              /\ pc' = "raised"
              /\ fs' = fs
              /\ log' = log
         ELSE /\ fs' = r.fs
              /\ Logged("ERROR", "Error creating symlink", file_path)
              /\ pc' = "done"
              /\ failed' = failed
    /\ UNCHANGED <<fs0, file_path, link_target, argVars, scanVars, stageVars, mainVars, restVars>>

ReplaceOne ==
    \/ ReplaceStart
    \/ ReplaceRename
    \/ ReplaceMakedirs
    \/ ReplaceSymlink
    \/ ReplaceRemove
    \/ ReplaceRestore

----------------------------------------------------------------------------
(* A second invocation of relink executing replace_one_file_with_symlink   *)
(* on the same file_path, with the same roots, in the same file system.    *)
(* Its position, link target, failures and log are the fields of "other";  *)
(* each of its steps is the step of the same lines of the first.           *)

otherFrame ==
    <<fs0, file_path, link_target, pc, failed, log, argVars, scanVars, stageVars,
      mainVars, filelist>>

\* lines 230-254
OtherStart ==
    /\ other.pc = "start"
    /\ LET t     == LinkTarget(inputdata_root, target_dir, file_path)
           found == {<<"INFO", "Found owned file", file_path>>}
       IN
       other' = [other EXCEPT
                   !.link_target = t,
                   !.log = IF ~TargetExists(fs, t)
                           THEN @ \cup found
                                  \cup {<<"WARNING", "Corresponding file not found", file_path>>}
                           ELSE IF IsDryRun(dry_run)
                           THEN @ \cup found
                                  \cup {<<"INFO", "[DRY RUN] Would create symbolic link", file_path>>}
                           ELSE @ \cup found,
                   !.pc = IF ~TargetExists(fs, t) \/ IsDryRun(dry_run)
                          THEN "done" ELSE "rename"]
    /\ UNCHANGED <<fs, otherFrame>>

\* lines 257-262
OtherRename ==
    /\ other.pc = "rename"
    /\ \E fault \in BOOLEAN :
         LET r == Rename(fs, file_path, TmpName(file_path)) IN
         IF fault \/ ~r.ok
         THEN /\ other' = [other EXCEPT
                             !.failed = @ \cup {Mark("rename", fault)},
                             !.log = @ \cup {<<"ERROR", "Error deleting file", file_path>>},
                             !.pc = RenameErrorPc]
              /\ fs' = fs
         ELSE /\ fs' = r.fs
              /\ other' = [other EXCEPT
                             !.log = @ \cup {<<"INFO", "Deleted original file", file_path>>},
                             !.pc = "makedirs"]
    /\ UNCHANGED otherFrame

\* line 267
OtherMakedirs ==
    /\ other.pc = "makedirs"
    /\ \E fault \in BOOLEAN :
         LET r == Makedirs(fs, Dirname(file_path), UserUid) IN
         IF fault \/ ~r.ok
         THEN /\ other' = [other EXCEPT !.failed = @ \cup {Mark("makedirs", fault)},
                                        !.pc = "restore"]
              /\ fs' = fs
         ELSE /\ fs' = r.fs
              /\ other' = [other EXCEPT !.pc = "symlink"]
    /\ UNCHANGED otherFrame

\* line 268
OtherSymlink ==
    /\ other.pc = "symlink"
    /\ \E fault \in BOOLEAN :
         LET r == Symlink(fs, other.link_target, file_path, UserUid) IN
         IF fault \/ ~r.ok
         THEN /\ other' = [other EXCEPT !.failed = @ \cup {Mark("symlink", fault)},
                                        !.pc = "restore"]
              /\ fs' = fs
         ELSE /\ fs' = r.fs
              /\ other' = [other EXCEPT !.pc = "remove"]
    /\ UNCHANGED otherFrame

\* lines 269-270
OtherRemove ==
    /\ other.pc = "remove"
    /\ \E fault \in BOOLEAN :
         LET r == Unlink(fs, TmpName(file_path)) IN
         IF fault \/ ~r.ok
         THEN /\ other' = [other EXCEPT !.failed = @ \cup {Mark("remove", fault)},
                                        !.pc = "restore"]
              /\ fs' = fs
         ELSE /\ fs' = r.fs
              /\ other' = [other EXCEPT
                             !.log = @ \cup {<<"INFO", "Created symbolic link", file_path>>},
                             !.pc = "done"]
    /\ UNCHANGED otherFrame

\* lines 271-273
OtherRestore ==
    /\ other.pc = "restore"
    /\ \E fault \in BOOLEAN :
         LET r == RestoreOriginal(fs, file_path) IN
         IF fault \/ ~r.ok
         THEN /\ other' = [other EXCEPT !.failed = @ \cup {Mark("restore", fault)},
                                        !.pc = "raised"]
              /\ fs' = fs
         ELSE /\ fs' = r.fs
              /\ other' = [other EXCEPT
                             !.log = @ \cup {<<"ERROR", "Error creating symlink", file_path>>},
                             !.pc = "done"]
    /\ UNCHANGED otherFrame

OtherReplaceOne ==
    \/ OtherStart
    \/ OtherRename
    \/ OtherMakedirs
    \/ OtherSymlink
    \/ OtherRemove
    \/ OtherRestore

----------------------------------------------------------------------------
(* find_owned_files_scandir: a generator, modelled by the stack of its     *)
(* active frames.  A frame is [path, opened, todo, seen]: the directory    *)
(* passed to os.scandir, whether the listing was obtained, the entries     *)
(* (name and type as read from the directory) not yet visited, and the     *)
(* entries the directory stream has delivered so far.                      *)

replaceVars == <<file_path, link_target, pc>>

NewFrame(p) == [path |-> p, opened |-> FALSE, todo |-> {}, seen |-> {}]

Top == stack[Len(stack)]
Pop == SubSeq(stack, 1, Len(stack) - 1)

\* os.scandir(p): the entries of the directory p resolves to
Listing(f, p) ==
    LET d == Stat(f, p).path
    IN { [name |-> q[Len(q)], kind |-> f[q].kind] :
           q \in { x \in DOMAIN f : Len(x) = Len(d) + 1 /\ IsPrefix(d, x) } }

\* entry.path
EntryPath(dir, e) == Join(dir, <<e.name>>)

\* the directory test made on symbolic links too
IsDirEntry_Follow(f, dir, e) == Isdir(f, EntryPath(dir, e))

\* line 154: entry.is_dir(follow_symlinks=False)
IsDirEntry(f, dir, e) == e.kind = "dir"

\* the owner test left out
HandleNonDirEntry_AnyOwner(f, dir, e, uid) == e.kind = "file"

\* symbolic links returned like regular files
HandleNonDirEntry_LinksToo(f, dir, e, uid) ==
    /\ EntryAt(f, EntryPath(dir, e)).uid = uid
    /\ e.kind \in {"file", "link"}

\* lines 48-58, _handle_non_dir_entry: TRUE when entry.path is returned
HandleNonDirEntry(f, dir, e, uid) ==
    /\ EntryAt(f, EntryPath(dir, e)).uid = uid
    /\ e.kind = "file"

\* lines 77-90, _handle_non_dir_str: TRUE when path is returned
HandleNonDirStr(f, p, uid) ==
    /\ EntryAt(f, p).uid = uid
    /\ ~Islink(f, p)
    /\ Isfile(f, p)

\* the generator yields p: list(...) collects it, the loop of
\* replace_files_with_symlinks (lines 213-214) calls
\* replace_one_file_with_symlink on it before the scan goes on
Yield(p) ==
    /\ yielded' = Append(yielded, p)
    /\ IF consumer = "replace"
       THEN /\ calls' = Append(calls, p)
            /\ file_path' = p
            /\ pc' = "start"
            /\ link_target' = <<>>
       ELSE UNCHANGED <<calls, replaceVars>>

NoYield == UNCHANGED <<yielded, calls, replaceVars>>

\* the scan runs only while no replacement is under way
ScanRuns == stack # <<>> /\ pc \in {"idle", "done"}

\* lines 149-150 and 169-174: os.scandir(item) and its exception handlers
ScanOpen ==
    /\ ScanRuns
    /\ ~Top.opened
    /\ \E fault \in BOOLEAN :
         IF fault \/ ~Exists(fs, Top.path)
         THEN \* OSError, PermissionError (lines 173-174)
              /\ failed' = failed \cup {"scandir"}
              /\ Logged("ERROR", "Error accessing", Top.path)
              /\ stack' = Pop
              /\ NoYield
         ELSE IF ~Isdir(fs, Top.path)
         THEN \* NotADirectoryError (lines 169-171)
              /\ stack' = Pop
              /\ IF HandleNonDirStr(fs, Top.path, user_uid)
                 THEN Yield(Top.path) /\ log' = log
                 ELSE /\ NoYield
                      /\ IF EntryAt(fs, Top.path).uid = user_uid /\ Islink(fs, Top.path)
                         THEN Logged("DEBUG", "Skipping symlink", Top.path)
                         ELSE log' = log
              /\ failed' = failed
         ELSE /\ stack' = [stack EXCEPT ![Len(stack)] =
                             [@ EXCEPT !.opened = TRUE,
                                       !.todo = Listing(fs, Top.path),
                                       !.seen = Listing(fs, Top.path)]]
              /\ NoYield
              /\ UNCHANGED <<failed, log>>
    /\ UNCHANGED <<fs, fs0, argVars, item, user_uid, consumer, run, stageVars, mainVars, restVars>>

\* the error of one entry ending the loop over the directory
AfterEntryError_Abort(st) == SubSeq(st, 1, Len(st) - 1)

\* lines 165-167: the error is logged and the loop continues with the
\* next entry of the same directory
AfterEntryError(st) == st

\* lines 152-167: the body of the loop for the entry e, rest being the stack
\* once e is taken from the directory stream
VisitEntry(e, rest, fault) ==
    LET ep == EntryPath(Top.path, e) IN
    IF IsDirEntry(fs, Top.path, e)
    THEN \* lines 154-157: recurse
         /\ stack' = Append(rest, NewFrame(ep))
         /\ NoYield
         /\ UNCHANGED <<failed, log>>
    ELSE IF fault \/ ~Lexists(fs, ep)
    THEN \* lines 165-167: entry.stat raised OSError
         /\ failed' = failed \cup {Mark("entry", fault)}
         /\ Logged("ERROR", "Error accessing", ep)
         /\ stack' = AfterEntryError(rest)
         /\ NoYield
    ELSE IF HandleNonDirEntry(fs, Top.path, e, user_uid)
    THEN \* lines 160-163
         /\ stack' = rest
         /\ Yield(ep)
         /\ UNCHANGED <<failed, log>>
    ELSE /\ stack' = rest
         /\ NoYield
         /\ failed' = failed
         /\ IF EntryAt(fs, ep).uid = user_uid /\ e.kind = "link"
            THEN Logged("DEBUG", "Skipping symlink", ep)
            ELSE log' = log

\* lines 151-167: one iteration of the loop over the entries
ScanEntry ==
    /\ ScanRuns
    /\ Top.opened
    /\ \E e \in Top.todo, fault \in BOOLEAN :
         VisitEntry(e, [stack EXCEPT ![Len(stack)] = [@ EXCEPT !.todo = @ \ {e}]], fault)
    /\ UNCHANGED <<fs, fs0, argVars, item, user_uid, consumer, run, stageVars, mainVars, restVars>>

\* lines 150-151: os.scandir reads the directory lazily, so the stream may
\* also deliver, once, an entry that came into the directory after the
\* listing was first read, such as the symlink the loop of
\* replace_files_with_symlinks has just created; the loop body runs on it
\* as on any entry
ScanLateEntry ==
    /\ ScanRuns
    /\ Top.opened
    /\ \E e \in Listing(fs, Top.path) \ Top.seen, fault \in BOOLEAN :
         VisitEntry(e, [stack EXCEPT ![Len(stack)] = [@ EXCEPT !.seen = @ \cup {e}]], fault)
    /\ UNCHANGED <<fs, fs0, argVars, item, user_uid, consumer, run, stageVars, mainVars, restVars>>

\* the loop over the entries is exhausted: the frame's generator returns
ScanClose ==
    /\ ScanRuns
    /\ Top.opened
    /\ Top.todo = {}
    /\ stack' = Pop
    /\ NoYield
    /\ UNCHANGED <<fs, fs0, argVars, item, user_uid, consumer, run, failed, log, stageVars, mainVars, restVars>>

Scan ==
    \/ ScanOpen
    \/ ScanEntry
    \/ ScanClose

----------------------------------------------------------------------------
(* replace_files_with_symlinks *)

\* lines 192-213: make the paths absolute, look the user up, start the scan
RunStart ==
    /\ run = "start"
    /\ item' = Abspath(item)
    /\ target_dir' = Abspath(target_dir)
    /\ IF user_uid = NoUser
       THEN /\ Logged("ERROR", "User not found", <<>>)
            /\ run' = "done"
            /\ stack' = stack
       ELSE /\ log' = log \cup {<<"INFO", "Searching for files", Abspath(item)>>}
                      \cup (IF dry_run THEN {<<"INFO", "DRY RUN MODE", <<>>>>} ELSE {})
            /\ run' = "scan"
            /\ stack' = <<NewFrame(Abspath(item))>>
    /\ UNCHANGED <<fs, fs0, inputdata_root, dry_run, replaceVars, failed,
                   user_uid, consumer, yielded, calls, stageVars, mainVars, restVars>>

\* lines 213-214: the generator is exhausted, the function returns
RunReturn ==
    /\ run = "scan"
    /\ stack = <<>>
    /\ pc \in {"idle", "done"}
    /\ run' = "done"
    /\ UNCHANGED <<fs, fs0, argVars, replaceVars, failed, log, item, user_uid,
                   consumer, stack, yielded, calls, stageVars, mainVars, restVars>>

\* lines 213-214 over a sequence of files known in advance (held in
\* "yielded"): the loop calls replace_one_file_with_symlink on the next file
\* once the call before has returned
PairCall ==
    /\ consumer = "sequence"
    /\ pc \in {"idle", "done"}
    /\ Len(calls) < Len(yielded)
    /\ calls' = Append(calls, yielded[Len(calls) + 1])
    /\ file_path' = yielded[Len(calls) + 1]
    /\ link_target' = <<>>
    /\ pc' = "start"
    /\ UNCHANGED <<fs, fs0, argVars, failed, log, item, user_uid, consumer, stack,
                   yielded, run, stageVars, mainVars, restVars>>

----------------------------------------------------------------------------
(* relink: main().  parse_arguments validates the paths and calls          *)
(* process_args; then replace_files_with_symlinks is called on each item.  *)

\* lines 295-299, validate_paths on one path: the error message, or "" with
\* the absolute path
ValidatePaths(f, p, check_is_dir) ==
    IF ~Exists(f, p) THEN [msg |-> "does not exist", path |-> p]
    ELSE IF check_is_dir /\ ~Isdir(f, p) THEN [msg |-> "is not a directory", path |-> p]
    ELSE [msg |-> "", path |-> Abspath(p)]

\* the test made in the other direction too
TargetOverlaps_EitherWay(target, root) ==
    IsRelativeTo(target, root) \/ IsRelativeTo(root, target)

\* the test that lets the inputdata root itself through
TargetOverlaps_ProperOnly(target, root) ==
    IsRelativeTo(target, root) /\ target # root

\* lines 427-429: Path(args.target_root).is_relative_to(args.inputdata_root)
TargetOverlaps(target, root) == IsRelativeTo(target, root)

\* the items accepted wherever they are
ItemOutside_Never(it, root) == FALSE

\* lines 420-422: not Path(item).is_relative_to(args.inputdata_root)
ItemOutside(it, root) == ~IsRelativeTo(it, root)

\* lines 418-433, process_args on absolute paths: the message of the
\* ArgumentTypeError raised, or ""
ProcessArgs(items, target, root) ==
    IF \E i \in DOMAIN items : ItemOutside(items[i], root)
    THEN "not under inputdata root"
    ELSE IF TargetOverlaps(target, root)
    THEN "must not be under inputdata root"
    ELSE ""

\* lines 439 and 378-386: parse_arguments.  An error of a type function ends
\* the process with status 2 (parser.error); the ArgumentTypeError raised by
\* process_args is not caught and ends it with status 1.
MainParse ==
    /\ cli.at = "args"
    /\ LET vi == [i \in DOMAIN cli.items |-> ValidatePaths(fs, cli.items[i], FALSE)]
           vt == ValidatePaths(fs, cli.target_root, TRUE)
           vr == ValidatePaths(fs, cli.inputdata_root, TRUE)
           errs == ({ vi[i].msg : i \in DOMAIN vi } \cup {vt.msg, vr.msg}) \ {""}
           its == [i \in DOMAIN vi |-> vi[i].path]
           e == ProcessArgs(its, vt.path, vr.path)
       IN IF errs # {}
          THEN \E m \in errs : cli' = [cli EXCEPT !.at = "exit", !.error = m, !.code = 2]
          ELSE IF e # ""
          THEN cli' = [cli EXCEPT !.at = "exit", !.error = e, !.code = 1]
          ELSE cli' = [cli EXCEPT !.at = "loop", !.items = its,
                                  !.target_root = vt.path, !.inputdata_root = vr.path]
    /\ UNCHANGED <<fs, fs0, argVars, replaceVars, failed, log, scanVars, stageVars, batch, restVars>>

\* lines 446-453: the next iteration of the loop over args.items_to_process
MainCall ==
    /\ cli.at = "loop"
    /\ run \in {"idle", "done"}
    /\ pc \in {"idle", "done"}
    /\ cli.done < Len(cli.items)
    /\ cli' = [cli EXCEPT !.done = @ + 1]
    /\ item' = cli.items[cli.done + 1]
    /\ target_dir' = cli.target_root
    /\ inputdata_root' = cli.inputdata_root
    /\ run' = "start"
    /\ UNCHANGED <<fs, fs0, dry_run, replaceVars, failed, log, user_uid, consumer,
                   stack, yielded, calls, stageVars, batch, restVars>>

\* an OSError leaves replace_one_file_with_symlink: nothing catches it, the
\* process ends with a traceback
MainRaise ==
    /\ cli.at = "loop"
    /\ pc = "raised"
    /\ cli' = [cli EXCEPT !.at = "exit", !.error = "OSError", !.code = 1]
    /\ UNCHANGED <<fs, fs0, argVars, replaceVars, failed, log, scanVars, stageVars, batch, restVars>>

\* lines 455-459: the loop is over, main() returns None
MainReturn ==
    /\ cli.at = "loop"
    /\ run \in {"idle", "done"}
    /\ pc \in {"idle", "done"}
    /\ cli.done = Len(cli.items)
    /\ cli' = [cli EXCEPT !.at = "exit", !.code = 0]
    /\ UNCHANGED <<fs, fs0, argVars, replaceVars, failed, log, scanVars, stageVars, batch, restVars>>

Main ==
    \/ MainParse
    \/ MainCall
    \/ MainRaise
    \/ MainReturn

----------------------------------------------------------------------------
(* rimport: stage_data(src, inputdata_root, staging_root, check).  The     *)
(* staging root is held in target_dir, the argument it is passed as to     *)
(* replace_one_file_with_symlink.                                          *)

\* staged = staging_root / relative_path(source, inputdata_root)
Staged(src, root, staging) == Join(staging, Relpath(src, root))

\* a symlink that is never recognised as published
AlreadyLinked_Never(f, src, staging) == FALSE

\* the source is a live symlink into the staging tree
AlreadyLinked(f, src, staging) ==
    /\ Islink(f, src)
    /\ Exists(f, src)
    /\ IsRelativeTo(Realpath(f, src), Realpath(f, staging))

\* the already-linked branch made to depend on the download predicate
PublishedOutcome_NeedsDownload(dl) ==
    IF dl THEN "already published and linked" ELSE "not available for download"

\* the outcome of the already-linked branch: can_file_be_downloaded chooses
\* between two advisory messages and nothing else
PublishedOutcome(dl) == "already published and linked"

\* the check argument ignored
IsCheck_Ignored(c) == FALSE

\* the test that decides whether the call only reports what it would do
IsCheck(c) == c

\* shutil.copy2(src, dst): content, modification time and permission bits
CopyFile(f, src, dst, uid) ==
    LET s == Stat(f, src)
        d == Stat(f, dst)
    IN IF ~Found(f, s) \/ f[s.path].kind # "file" \/ ~d.ok THEN Fail(f)
       ELSE IF d.path \in DOMAIN f /\ f[d.path].kind = "dir" THEN Fail(f)
       ELSE Done(Put(f, d.path, File(f[s.path].data, f[s.path].meta, uid)))

\* the verification left out
RelinkWorked_Always(f, src, dst) == TRUE

\* check_relink_worked(src, dst): src is a symlink that resolves to dst,
\* whether dst exists or not
RelinkWorked(f, src, dst) ==
    /\ Islink(f, src)
    /\ Stat(f, src).ok
    /\ Realpath(f, src) = Realpath(f, dst)

\* stage_data returns or raises with the given outcome; it changes the file
\* system in no step that ends it
StageEnds(outcome) ==
    /\ spc' = "idle"
    /\ result' = Append(result, outcome)
    /\ fs1' = IF ncalls = 1 THEN fs ELSE fs1

StageGoesOn(next) ==
    /\ spc' = next
    /\ UNCHANGED <<result, fs1>>

\* a call of stage_data on the same source
StageCall ==
    /\ spc = "idle"
    /\ ncalls < MaxStageCalls
    /\ ncalls' = ncalls + 1
    /\ spc' = "classify"
    /\ fs0' = fs
    /\ failed' = {}
    /\ log' = {}
    /\ pc' = "idle"
    /\ UNCHANGED <<fs, argVars, file_path, link_target, scanVars,
                   source, check, result, copies, fs1, mainVars, restVars>>

\* the classification of the source (section 4.4, steps 1 to 5)
StageClassify ==
    /\ spc = "classify"
    /\ LET staged == Staged(source, inputdata_root, target_dir) IN
       \E dl \in BOOLEAN :
         LET download == {<<"INFO", IF dl THEN "File is available for download"
                                          ELSE "File is not (yet) available for download",
                            source>>}
         IN
         IF ~Lexists(fs, source)
         THEN StageEnds("source not found") /\ UNCHANGED <<log, replaceVars>>
         ELSE IF Islink(fs, source)
         THEN IF ~Exists(fs, source)
              THEN StageEnds("Source is a broken symlink") /\ UNCHANGED <<log, replaceVars>>
              ELSE IF AlreadyLinked(fs, source, target_dir)
              THEN /\ StageEnds(PublishedOutcome(dl))
                   /\ log' = log \cup download
                          \cup {<<"INFO", "File is already published and linked", source>>}
                   /\ UNCHANGED replaceVars
              ELSE StageEnds("outside staging directory") /\ UNCHANGED <<log, replaceVars>>
         ELSE IF IsRelativeTo(Abspath(source), Abspath(target_dir))
         THEN StageEnds("already under staging directory") /\ UNCHANGED <<log, replaceVars>>
         ELSE IF ~IsRelativeTo(Abspath(source), Abspath(inputdata_root))
         THEN StageEnds("not under inputdata root") /\ UNCHANGED <<log, replaceVars>>
         ELSE IF IsCheck(check)
         THEN /\ StageEnds("checked")
              /\ log' = log \cup
                   (IF Exists(fs, staged)
                    THEN {<<"INFO", "File is already published but NOT linked", source>>}
                    ELSE {<<"INFO", "File is not already published", source>>})
              /\ UNCHANGED replaceVars
         ELSE IF Exists(fs, staged)
         THEN /\ StageGoesOn("verify")
              /\ log' = log \cup download
                     \cup {<<"INFO", "File is already published but NOT linked; linking", source>>}
              /\ file_path' = source
              /\ link_target' = <<>>
              /\ pc' = "start"
         ELSE StageGoesOn("copy") /\ UNCHANGED <<log, replaceVars>>
    /\ UNCHANGED <<fs, fs0, argVars, failed, scanVars, source, check, ncalls, copies,
                   mainVars, restVars>>

\* create the parent directories of staged, copy, then call
\* replace_one_file_with_symlink(inputdata_root, staging_root, src)
StageCopy ==
    /\ spc = "copy"
    /\ LET staged == Staged(source, inputdata_root, target_dir) IN
       \E fault \in BOOLEAN :
         LET m == Makedirs(fs, Dirname(staged), UserUid)
             c == IF m.ok THEN CopyFile(m.fs, source, staged, UserUid) ELSE Fail(fs)
         IN
         IF fault \/ ~c.ok
         THEN /\ failed' = failed \cup {"copy"}
              /\ fs' = fs
              /\ StageEnds("OSError")
              /\ UNCHANGED <<copies, replaceVars>>
         ELSE /\ fs' = c.fs
              /\ copies' = copies + 1
              /\ StageGoesOn("verify")
              /\ file_path' = source
              /\ link_target' = <<>>
              /\ pc' = "start"
              /\ failed' = failed
    /\ UNCHANGED <<fs0, argVars, log, scanVars, source, check, ncalls, mainVars, restVars>>

\* replace_one_file_with_symlink is back: check_relink_worked (step 6)
StageVerify ==
    /\ spc = "verify"
    /\ pc \in {"done", "raised"}
    /\ LET staged == Staged(source, inputdata_root, target_dir) IN
       IF pc = "raised" THEN StageEnds("OSError")
       ELSE IF ~RelinkWorked(fs, source, staged)
       THEN StageEnds("Error relinking during rimport")
       ELSE StageEnds(IF Exists(fs0, staged) THEN "linked" ELSE "staged")
    /\ pc' = "idle"
    /\ UNCHANGED <<fs, fs0, argVars, file_path, link_target, failed, log, scanVars,
                   source, check, ncalls, copies, mainVars, restVars>>

StageData ==
    \/ StageCall
    \/ StageClassify
    \/ StageCopy
    \/ StageVerify

----------------------------------------------------------------------------
(* rimport: the loop of main() over the normalized list of files.  Each    *)
(* file is passed to stage_data inside a try; an exception is reported on  *)
(* stderr and counted, and the loop goes on.                               *)

\* the outcomes with which stage_data returns; with every other it raises
NormalReturns == {"staged", "linked", "already published and linked", "checked"}

Raises(outcome) == outcome \notin NormalReturns

\* the error counter ignored
ExitCode_Zero(errors) == 0

\* the value main() returns after the loop
ExitCode(errors) == IF errors > 0 THEN 1 ELSE 0

\* the next iteration: stage_data(src, inputdata_root, staging_root, check)
BatchCall ==
    /\ batch.code = Running
    /\ spc = "idle"
    /\ Len(batch.called) = batch.done
    /\ batch.done < Len(batch.files)
    /\ source' = batch.files[batch.done + 1]
    /\ batch' = [batch EXCEPT !.called = Append(@, batch.files[batch.done + 1])]
    /\ ncalls' = ncalls + 1
    /\ spc' = "classify"
    /\ fs0' = fs
    /\ failed' = {}
    /\ log' = {}
    /\ pc' = "idle"
    /\ UNCHANGED <<fs, argVars, file_path, link_target, scanVars,
                   check, result, copies, fs1, cli, restVars>>

\* stage_data is back: the except clause of the loop body, or nothing
BatchHandle ==
    /\ batch.code = Running
    /\ spc = "idle"
    /\ Len(batch.called) = batch.done + 1
    /\ Len(result) = Len(batch.called)
    /\ batch' = IF Raises(result[Len(result)])
                THEN [batch EXCEPT !.done = @ + 1,
                                   !.errors = @ + 1,
                                   !.stderr = Append(@, <<"error processing", source>>)]
                ELSE [batch EXCEPT !.done = @ + 1]
    /\ UNCHANGED <<fs, fs0, argVars, replaceVars, failed, log, scanVars, stageVars, cli, restVars>>

\* the list is exhausted: main() returns
BatchReturn ==
    /\ batch.code = Running
    /\ batch.done = Len(batch.files)
    /\ batch' = [batch EXCEPT !.code = ExitCode(batch.errors)]
    /\ UNCHANGED <<fs, fs0, argVars, replaceVars, failed, log, scanVars, stageVars, cli, restVars>>

----------------------------------------------------------------------------
(* rimport: read_filelist(list_file).  The text of the file is a sequence  *)
(* of characters; a line ends at a newline or at the end of the text.      *)

NL == "\n"

\* the characters of a list file: letters, a blank, the comment sign, newline
Chars == {"a", "b", " ", "#", NL}

IsSpace(c) == c = " "

\* the first line of a non-empty text, without its newline
RECURSIVE FirstLine(_)
FirstLine(t) ==
    IF t = <<>> \/ Head(t) = NL THEN <<>>
    ELSE <<Head(t)>> \o FirstLine(Tail(t))

\* the text after the first line and its newline
AfterFirstLine(t) ==
    LET n == Len(FirstLine(t))
    IN IF n = Len(t) THEN <<>> ELSE SubSeq(t, n + 2, Len(t))

RECURSIVE LStrip(_)
LStrip(l) == IF l # <<>> /\ IsSpace(Head(l)) THEN LStrip(Tail(l)) ELSE l

RECURSIVE RStrip(_)
RStrip(l) ==
    IF l # <<>> /\ IsSpace(l[Len(l)]) THEN RStrip(SubSeq(l, 1, Len(l) - 1)) ELSE l

\* only the leading whitespace removed
Strip_LeftOnly(l) == LStrip(l)

\* line.strip()
Strip(l) == RStrip(LStrip(l))

\* the line is kept: not blank and not a comment
Keeps(l) == l # <<>> /\ l[1] # "#"

\* one iteration of the loop over the lines of the file
ReadLine ==
    /\ filelist.at = "read"
    /\ filelist.rest # <<>>
    /\ LET l == Strip(FirstLine(filelist.rest))
       IN filelist' = [filelist EXCEPT
                         !.rest = AfterFirstLine(filelist.rest),
                         !.out = IF Keeps(l) THEN Append(@, l) ELSE @]
    /\ UNCHANGED <<fs, fs0, argVars, replaceVars, failed, log, scanVars, stageVars,
                   mainVars, other>>

\* the end of the file: the list is returned
ReadReturn ==
    /\ filelist.at = "read"
    /\ filelist.rest = <<>>
    /\ filelist' = [filelist EXCEPT !.at = "done"]
    /\ UNCHANGED <<fs, fs0, argVars, replaceVars, failed, log, scanVars, stageVars,
                   mainVars, other>>

ReadFilelist ==
    \/ ReadLine
    \/ ReadReturn

----------------------------------------------------------------------------
(* File systems the operations start from *)

RemoveAll(f, S) == [q \in DOMAIN f \ S |-> f[q]]

InRoot  == <<"/", "in">>
OutRoot == <<"/", "out">>
ExtRoot == <<"/", "ext">>

\* an inputdata tree /in, a target tree /out and a directory /ext outside both
FullTree ==
    (Root :> Dir(0))
    @@ (InRoot :> Dir(0))
    @@ (<<"/", "in", "f">> :> File("f-data", "f-meta", UserUid))
    @@ (<<"/", "in", "f.tmp">> :> File("t-data", "t-meta", UserUid))
    @@ (<<"/", "in", "d">> :> Dir(UserUid))
    @@ (<<"/", "in", "d", "g">> :> File("g-data", "g-meta", UserUid))
    @@ (OutRoot :> Dir(0))
    @@ (<<"/", "out", "f">> :> File("F-data", "F-meta", 0))
    @@ (<<"/", "out", "d">> :> Dir(0))
    @@ (<<"/", "out", "d", "g">> :> File("G-data", "G-meta", 0))
    @@ (ExtRoot :> Dir(0))
    @@ (<<"/", "ext", "e">> :> File("e-data", "e-meta", UserUid))

\* entries that may be missing when replace_one_file_with_symlink is called
OneOptional ==
    { <<"/", "in", "f.tmp">>, <<"/", "out", "f">>, <<"/", "out", "d", "g">> }

OneTrees == { RemoveAll(FullTree, S) : S \in SUBSET OneOptional }

\* the roots as the caller may pass them: absolute, or relative to Cwd
RootForms == { <<InRoot, OutRoot>>, <<Tail(InRoot), Tail(OutRoot)>> }

\* the sequences over S of length 1 to n
SeqsUpTo(S, n) == UNION { [1..k -> S] : k \in 1..n }

NoScan ==
    /\ item = <<>>
    /\ user_uid = UserUid
    /\ consumer = "none"
    /\ stack = <<>>
    /\ yielded = <<>>
    /\ calls = <<>>
    /\ run = "idle"

NoStage ==
    /\ spc = "idle"
    /\ source = <<>>
    /\ check = FALSE
    /\ result = <<>>
    /\ ncalls = 0
    /\ copies = 0
    /\ fs1 = fs

NoBatch ==
    batch = [files |-> <<>>, called |-> <<>>, done |-> 0, errors |-> 0,
             stderr |-> <<>>, code |-> Running]

NoCli ==
    cli = [items |-> <<>>, target_root |-> <<>>, inputdata_root |-> <<>>,
           at |-> "idle", done |-> 0, error |-> "", code |-> Running]

NoFilelist == filelist = [text |-> <<>>, at |-> "idle", rest |-> <<>>, out |-> <<>>]

NoOther == other = [pc |-> "idle", failed |-> {}, log |-> {}, link_target |-> <<>>]

NoRest == NoFilelist /\ NoOther

NoMain == NoBatch /\ NoCli /\ NoRest

----------------------------------------------------------------------------
(* Spec: one direct call replace_one_file_with_symlink(inputdata_root,     *)
(* target_dir, file_path, dry_run) on a regular file                       *)

\* the files the call is made on: two under inputdata_root, one outside it
OneFiles == { <<"/", "in", "f">>, <<"/", "in", "d", "g">>, <<"/", "ext", "e">> }

Init ==
    /\ fs \in OneTrees
    /\ fs0 = fs
    /\ \E r \in RootForms : inputdata_root = r[1] /\ target_dir = r[2]
    /\ dry_run \in BOOLEAN
    /\ file_path \in OneFiles
    /\ link_target = <<>>
    /\ pc = "start"
    /\ failed = {}
    /\ log = {}
    /\ NoScan
    /\ NoStage
    /\ NoMain

Next == ReplaceOne

Spec == Init /\ [][Next]_vars

----------------------------------------------------------------------------
(* SpecScan: list(find_owned_files_scandir(item, user_uid))                *)

Absent == [kind |-> "none", data |-> "", meta |-> "", target |-> <<>>, uid |-> 0]

PutOpt(f, p, e) == IF e.kind = "none" THEN Remove(f, p) ELSE Put(f, p, e)

LnkPath == <<"/", "in", "lnk">>

\* what /in/f, /in/d/g and /in/lnk may be when a scan starts
FChoices ==
    { Absent,
      File("f-data", "f-meta", UserUid),
      File("f-data", "f-meta", OtherUid),
      Link(<<"/", "out", "f">>, UserUid),
      Link(<<"/", "out", "f">>, OtherUid) }
GChoices ==
    { File("g-data", "g-meta", UserUid),
      File("g-data", "g-meta", OtherUid),
      Link(<<"/", "out", "d", "g">>, UserUid) }
LChoices == { Absent, Link(ExtRoot, UserUid), Link(ExtRoot, OtherUid) }

ScanTrees ==
    { PutOpt(PutOpt(PutOpt(FullTree, <<"/", "in", "f">>, a),
                    <<"/", "in", "d", "g">>, b), LnkPath, c) :
        a \in FChoices, b \in GChoices, c \in LChoices }

\* the items a scan may be started on: directories, a file, a link to a directory
ScanItems == { InRoot, <<"/", "in", "d">>, <<"/", "in", "f">>, LnkPath }

NoReplace ==
    /\ file_path = <<>>
    /\ link_target = <<>>
    /\ pc = "idle"
    /\ failed = {}
    /\ log = {}

InitScan ==
    /\ fs \in ScanTrees
    /\ fs0 = fs
    /\ inputdata_root = InRoot
    /\ target_dir = OutRoot
    /\ dry_run = FALSE
    /\ NoReplace
    /\ item \in ScanItems
    /\ Lexists(fs, item)
    /\ user_uid \in {UserUid, OtherUid}
    /\ consumer = "list"
    /\ stack = <<NewFrame(item)>>
    /\ yielded = <<>>
    /\ calls = <<>>
    /\ run = "idle"
    /\ NoStage
    /\ NoMain

NextScan == Scan

SpecScan == InitScan /\ [][NextScan]_vars

----------------------------------------------------------------------------
(* SpecRun: replace_files_with_symlinks(item, target_dir, username,        *)
(* inputdata_root, dry_run)                                                *)

OptChoices(e) == { Absent, e }

RunTrees ==
    { PutOpt(PutOpt(PutOpt(PutOpt(PutOpt(FullTree,
          <<"/", "in", "f">>, a),
          <<"/", "in", "d", "g">>, b),
          <<"/", "in", "f.tmp">>, c),
          <<"/", "out", "f">>, d),
          <<"/", "out", "d", "g">>, e) :
        a \in FChoices, b \in GChoices,
        c \in OptChoices(File("t-data", "t-meta", UserUid)),
        d \in OptChoices(File("F-data", "F-meta", 0)),
        e \in OptChoices(File("G-data", "G-meta", 0)) }

RunItems == { InRoot, <<"in", "d">>, <<"/", "in", "f">> }

InitRun ==
    /\ fs \in RunTrees
    /\ fs0 = fs
    /\ \E r \in RootForms : inputdata_root = r[1] /\ target_dir = r[2]
    /\ dry_run \in BOOLEAN
    /\ NoReplace
    /\ item \in RunItems
    /\ Exists(fs, item)
    /\ user_uid \in {UserUid, NoUser}
    /\ consumer = "replace"
    /\ stack = <<>>
    /\ yielded = <<>>
    /\ calls = <<>>
    /\ run = "start"
    /\ NoStage
    /\ NoMain

NextRun ==
    \/ RunStart
    \/ Scan
    \/ ScanLateEntry
    \/ ReplaceOne
    \/ RunReturn

SpecRun == InitRun /\ [][NextRun]_vars

----------------------------------------------------------------------------
(* SpecPair: replace_one_file_with_symlink called on one file, or on two   *)
(* files of the same tree one after the other, in either order             *)

TmpTarget == <<"/", "out", "f.tmp">>

\* the tree with /in/f, /in/f.tmp and /in/d/g; any counterpart may be missing
PairTrees ==
    { PutOpt(PutOpt(PutOpt(FullTree,
          <<"/", "out", "f">>, a),
          <<"/", "out", "d", "g">>, b),
          TmpTarget, c) :
        a \in OptChoices(File("F-data", "F-meta", 0)),
        b \in OptChoices(File("G-data", "G-meta", 0)),
        c \in OptChoices(File("T-data", "T-meta", 0)) }

PairFiles == { <<"/", "in", "f">>, <<"/", "in", "f.tmp">>, <<"/", "in", "d", "g">> }

\* one file, or two different files in some order
PairOrders ==
    { q \in SeqsUpTo(PairFiles, 2) : Len(q) = 2 => q[1] # q[2] }

InitPair ==
    /\ fs \in PairTrees
    /\ fs0 = fs
    /\ inputdata_root = InRoot
    /\ target_dir = OutRoot
    /\ dry_run = FALSE
    /\ NoReplace
    /\ item = InRoot
    /\ user_uid = UserUid
    /\ consumer = "sequence"
    /\ stack = <<>>
    /\ yielded \in PairOrders
    /\ calls = <<>>
    /\ run = "idle"
    /\ NoStage
    /\ NoMain

NextPair ==
    \/ PairCall
    \/ ReplaceOne

SpecPair == InitPair /\ [][NextPair]_vars

----------------------------------------------------------------------------
(* SpecRace: two invocations of relink execute                             *)
(* replace_one_file_with_symlink on the same file at the same time; their  *)
(* steps interleave in every order                                         *)

\* /in/f and /in/d/g with or without their counterparts, no ".tmp" sibling
RaceTrees ==
    { RemoveAll(FullTree, S \cup {<<"/", "in", "f.tmp">>}) :
        S \in SUBSET { <<"/", "out", "f">>, <<"/", "out", "d", "g">> } }

InitRace ==
    /\ fs \in RaceTrees
    /\ fs0 = fs
    /\ inputdata_root = InRoot
    /\ target_dir = OutRoot
    /\ dry_run \in BOOLEAN
    /\ file_path \in { <<"/", "in", "f">>, <<"/", "in", "d", "g">> }
    /\ link_target = <<>>
    /\ pc = "start"
    /\ failed = {}
    /\ log = {}
    /\ NoScan
    /\ NoStage
    /\ NoBatch
    /\ NoCli
    /\ NoFilelist
    /\ other = [pc |-> "start", failed |-> {}, log |-> {}, link_target |-> <<>>]

NextRace ==
    \/ ReplaceOne
    \/ OtherReplaceOne

SpecRace == InitRace /\ [][NextRace]_vars

----------------------------------------------------------------------------
(* SpecStage: stage_data(source, inputdata_root, staging_root, check),     *)
(* called MaxStageCalls times on the same source                           *)

MarkerPath == <<"/", "ext", "file_d651077.nc">>

\* what the source /in/f may be when stage_data is called
SourceChoices ==
    { Absent,
      File("f-data", "f-meta", UserUid),
      Link(<<"/", "out", "f">>, UserUid),
      Link(<<"/", "out", "d", "g">>, UserUid),
      Link(<<"/", "ext", "e">>, UserUid),
      Link(<<"/", "out", "nowhere">>, UserUid) }

\* /in/f.tmp is absent; /out/f and the staging directory /out/d may be missing
StageTrees ==
    { LET t == Put(PutOpt(PutOpt(Remove(FullTree, <<"/", "in", "f.tmp">>),
                     <<"/", "in", "f">>, a), <<"/", "out", "f">>, b),
                   MarkerPath, File("m-data", "m-meta", UserUid))
      IN IF hasDir THEN t
         ELSE RemoveAll(t, {<<"/", "out", "d">>, <<"/", "out", "d", "g">>}) :
        a \in SourceChoices,
        b \in OptChoices(File("F-data", "F-meta", 0)),
        hasDir \in BOOLEAN }

StageSources ==
    { <<"/", "in", "f">>, <<"/", "in", "d", "g">>, <<"/", "out", "f">>,
      <<"/", "ext", "e">>, MarkerPath }

InitStage ==
    /\ fs \in StageTrees
    /\ fs0 = fs
    /\ inputdata_root = InRoot
    /\ target_dir = OutRoot
    /\ dry_run = FALSE
    /\ NoReplace
    /\ NoScan
    /\ spc = "idle"
    /\ source \in StageSources
    /\ check \in BOOLEAN
    /\ result = <<>>
    /\ ncalls = 0
    /\ copies = 0
    /\ fs1 = fs
    /\ NoMain

NextStage ==
    \/ StageData
    \/ ReplaceOne

SpecStage == InitStage /\ [][NextStage]_vars

----------------------------------------------------------------------------
(* SpecMain: relink's main() on up to MaxItems items                       *)

\* /in/f.tmp is absent; /out/f may be missing
MainTrees ==
    { PutOpt(Remove(FullTree, <<"/", "in", "f.tmp">>), <<"/", "out", "f">>, b) :
        b \in OptChoices(File("F-data", "F-meta", 0)) }

\* the arguments as typed: absolute or relative, existing or not
MainItems == { InRoot, <<"in", "d">>, <<"/", "in", "f">>, ExtRoot, <<"/", "nowhere">> }
MainTargets == { OutRoot, <<"out">>, InRoot, <<"/", "in", "d">>, Root, <<"/", "out", "f">> }
MainRoots == { InRoot, <<"/", "in", "d">>, <<"/", "in", "f">> }

InitMain ==
    /\ fs \in MainTrees
    /\ fs0 = fs
    /\ inputdata_root = <<>>
    /\ target_dir = <<>>
    /\ dry_run \in BOOLEAN
    /\ NoReplace
    /\ item = <<>>
    /\ user_uid = UserUid
    /\ consumer = "replace"
    /\ stack = <<>>
    /\ yielded = <<>>
    /\ calls = <<>>
    /\ run = "idle"
    /\ NoStage
    /\ NoBatch
    /\ NoRest
    /\ \E l \in SeqsUpTo(MainItems, MaxItems), t \in MainTargets, r \in MainRoots :
         cli = [items |-> l, target_root |-> t, inputdata_root |-> r,
                at |-> "args", done |-> 0, error |-> "", code |-> Running]

NextMain ==
    \/ Main
    \/ RunStart
    \/ Scan
    \/ ScanLateEntry
    \/ ReplaceOne
    \/ RunReturn

SpecMain == InitMain /\ [][NextMain]_vars

----------------------------------------------------------------------------
(* SpecBatch: rimport's main() on a normalized list of up to MaxBatch      *)
(* files                                                                   *)

\* /in/f is a plain file or a link that leaves the staging tree
BatchTrees ==
    { PutOpt(PutOpt(Remove(FullTree, <<"/", "in", "f.tmp">>),
                    <<"/", "in", "f">>, a), <<"/", "out", "f">>, b) :
        a \in { File("f-data", "f-meta", UserUid), Link(<<"/", "ext", "e">>, UserUid) },
        b \in OptChoices(File("F-data", "F-meta", 0)) }

BatchSources == { <<"/", "in", "f">>, <<"/", "in", "d", "g">>, <<"/", "ext", "e">> }

InitBatch ==
    /\ fs \in BatchTrees
    /\ fs0 = fs
    /\ inputdata_root = InRoot
    /\ target_dir = OutRoot
    /\ dry_run = FALSE
    /\ NoReplace
    /\ NoScan
    /\ spc = "idle"
    /\ source = <<>>
    /\ check \in BOOLEAN
    /\ result = <<>>
    /\ ncalls = 0
    /\ copies = 0
    /\ fs1 = fs
    /\ \E l \in SeqsUpTo(BatchSources, MaxBatch) :
         batch = [files |-> l, called |-> <<>>, done |-> 0, errors |-> 0,
                  stderr |-> <<>>, code |-> Running]
    /\ NoCli
    /\ NoRest

NextBatch ==
    \/ BatchCall
    \/ StageClassify
    \/ StageCopy
    \/ ReplaceOne
    \/ StageVerify
    \/ BatchHandle
    \/ BatchReturn

SpecBatch == InitBatch /\ [][NextBatch]_vars

----------------------------------------------------------------------------
(* SpecList: read_filelist on a list file of up to MaxText characters      *)

Texts == UNION { [1..k -> Chars] : k \in 0..MaxText }

InitList ==
    /\ fs = FullTree
    /\ fs0 = fs
    /\ inputdata_root = InRoot
    /\ target_dir = OutRoot
    /\ dry_run = FALSE
    /\ NoReplace
    /\ NoScan
    /\ NoStage
    /\ NoBatch
    /\ NoCli
    /\ NoOther
    /\ \E t \in Texts : filelist = [text |-> t, at |-> "read", rest |-> t, out |-> <<>>]

NextList == ReadFilelist

SpecList == InitList /\ [][NextList]_vars

----------------------------------------------------------------------------
(* Properties of replace_one_file_with_symlink (checked under Spec)        *)

\* the link target the contract prescribes for file_path
Prescribed == Join(target_dir, Relpath(file_path, inputdata_root))

\* the call went past the existence test and the dry-run test
Attempted == Exists(fs0, Prescribed) /\ ~dry_run

\* C1: when os.makedirs or os.symlink is the step that fails after the rename
\* to file_path + ".tmp", the call ends with file_path a regular file with the
\* original content, not a symlink, and with no file_path + ".tmp" on disk.
C1_SymlinkFailureRestores ==
    (pc = "done" /\ failed # {} /\ failed \subseteq {"makedirs", "symlink"})
    => /\ Lexists(fs, file_path)
       /\ EntryAt(fs, file_path).kind = "file"
       /\ EntryAt(fs, file_path) = EntryAt(fs0, file_path)
       /\ ~Islink(fs, file_path)
       /\ ~Lexists(fs, TmpName(file_path))

C1_Witness ==
    /\ pc = "done"
    /\ failed = {"symlink"}
    /\ <<"ERROR", "Error creating symlink", file_path>> \in log
    /\ EntryAt(fs, file_path).data = EntryAt(fs0, file_path).data

\* C2: after a successful replacement file_path is a symlink whose text is
\* target_dir/relpath(file_path, inputdata_root) and file_path still exists
\* when the link is followed, also for roots passed as relative paths.
C2_SuccessLinksToTarget ==
    (pc = "done" /\ Attempted /\ failed = {}
        /\ IsRelativeTo(Abspath(file_path), Abspath(inputdata_root)))
    => /\ Islink(fs, file_path)
       /\ Readlink(fs, file_path) = Prescribed
       /\ Exists(fs, file_path)

\* C7: when link_target does not exist the call changes nothing in the file
\* system and reports the case with a warning, never with an error.
C7_MissingTargetNoChange ==
    ~Exists(fs0, Prescribed)
    => /\ fs = fs0
       /\ \A m \in log : m[1] # "ERROR"
       /\ pc = "done" =>
              <<"WARNING", "Corresponding file not found", file_path>> \in log

C7_Witness ==
    /\ pc = "done"
    /\ ~Exists(fs0, Prescribed)
    /\ ~dry_run
    /\ EntryAt(fs, file_path).kind = "file"
    /\ <<"WARNING", "Corresponding file not found", file_path>> \in log

\* the call has ended, by a return or by an exception
Ended == pc \in {"done", "raised"}

\* C22: when steps of the replace sequence fail, alone or combined (the
\* rename to ".tmp", makedirs, the symlink creation, the removal of ".tmp",
\* the rename back), and no file_path + ".tmp" existed before, the call ends
\* with file_path present, as the regular file or as a symlink, and with no
\* file_path + ".tmp" on disk.
C22_NoFailureLosesFile ==
    (Ended /\ Attempted /\ failed # {} /\ ~Lexists(fs0, TmpName(file_path)))
    => /\ Lexists(fs, file_path)
       /\ EntryAt(fs, file_path).kind \in {"file", "link"}
       /\ ~Lexists(fs, TmpName(file_path))

\* the entry that was at file_path when the call started is now at p
OriginalAt(p) == Lexists(fs, p) /\ EntryAt(fs, p) = fs0[file_path]

\* file_path is a symlink whose text is link_target, and link_target, tested
\* as the call tests it, exists
LinkInPlace ==
    /\ Islink(fs, file_path)
    /\ Readlink(fs, file_path) = link_target
    /\ Exists(fs, link_target)

\* C27: in every state of a call, between its steps and after any failing
\* step, the original file is stored at file_path or at file_path + ".tmp",
\* or file_path is a symlink to a link_target that exists: the content is
\* never missing from both places while no such symlink is in place.
C27_ContentNeverLost ==
    OriginalAt(file_path) \/ OriginalAt(TmpName(file_path)) \/ LinkInPlace

\* C28: a call changes no entry other than file_path: every other path,
\* file_path + ".tmp" included, holds after the call what it held before,
\* on the success path and on every failure path.
C28_OnlyFilePathChanges ==
    Ended => \A p \in (DOMAIN fs \cup DOMAIN fs0) \ {file_path} :
                 p \in DOMAIN fs /\ p \in DOMAIN fs0 /\ fs[p] = fs0[p]

\* file_path is not under inputdata_root
FileOutsideRoot == ~IsRelativeTo(Abspath(file_path), Abspath(inputdata_root))

\* C25: a call on a file_path that is not under inputdata_root ends with an
\* error, computes no link target and changes nothing on disk, so that no
\* symlink is created whose target lies outside target_root.
C25_OutsideFileRejected ==
    (FileOutsideRoot /\ pc # "start")
    => /\ fs = fs0
       /\ link_target = <<>>
       /\ Ended => \E m \in log : m[1] = "ERROR" /\ m[3] = file_path

----------------------------------------------------------------------------
(* Properties of find_owned_files_scandir (checked under SpecScan)         *)

Range(q) == { q[i] : i \in DOMAIN q }

ScanFinished == consumer = "list" /\ stack = <<>>

\* the item is a directory itself, not a link to one
ItemIsRealDir == EntryAt(fs, item).kind = "dir"

\* the regular files physically below the directory item owned by uid
OwnedRegularFiles(f, dir, uid) ==
    { p \in DOMAIN f : /\ IsPrefix(dir, p)
                       /\ p # dir
                       /\ f[p].kind = "file"
                       /\ f[p].uid = uid }

\* C5: a scan of a directory tree that met no access error yields exactly
\* the regular files of the tree owned by uid, each once: no file of another
\* user, no symlink whoever owns it, no directory, and no owned file omitted.
C5_OwnedRegularFilesExactly ==
    (ScanFinished /\ ItemIsRealDir /\ failed = {})
    => /\ Range(yielded) = OwnedRegularFiles(fs, item, user_uid)
       /\ Len(yielded) = Cardinality(Range(yielded))

C5_Witness ==
    /\ ScanFinished
    /\ item = InRoot
    /\ failed = {}
    /\ yielded # <<>>
    /\ \E p \in DOMAIN fs :
         IsPrefix(item, p) /\ fs[p].kind = "file" /\ fs[p].uid # user_uid
    /\ \E p \in DOMAIN fs :
         IsPrefix(item, p) /\ fs[p].kind = "link" /\ fs[p].uid = user_uid

\* the symbolic links strictly inside the scanned tree
LinksInside(f, dir) ==
    { p \in DOMAIN f : IsPrefix(dir, p) /\ p # dir /\ f[p].kind = "link" }

\* C6: the scan never descends into an entry that is a symbolic link: no
\* frame is opened on a link inside the tree, and no yielded path goes
\* through such a link or lies in the directory it points to.
C6_NoDescentIntoSymlinks ==
    ItemIsRealDir
    => /\ \A k \in 2..Len(stack) : ~Islink(fs, stack[k].path)
       /\ \A i \in DOMAIN yielded :
            /\ \A l \in LinksInside(fs, item) : ~IsPrefix(l, yielded[i])
            /\ ~IsPrefix(ExtRoot, Realpath(fs, yielded[i]))

C6_Witness ==
    /\ ScanFinished
    /\ item = InRoot
    /\ Islink(fs, LnkPath)
    /\ Realpath(fs, LnkPath) = ExtRoot
    /\ fs[<<"/", "ext", "e">>].uid = user_uid
    /\ yielded # <<>>

\* the paths an access error was logged for
ErrorPaths == { m[3] : m \in { x \in log : x[2] = "Error accessing" } }

\* p is an entry an access error was logged for, or lies below one
Skipped(p) == \E b \in ErrorPaths : IsPrefix(b, p)

----------------------------------------------------------------------------
(* Properties of replace_files_with_symlinks (checked under SpecRun)       *)

\* the messages that report a change of the file system
ChangeMessages == {"Deleted original file", "Created symbolic link", "Error creating symlink"}

\* C8: with dry_run=True nothing in the file system ever changes during a
\* whole run, whether the link targets exist or not, and no rename, symlink
\* creation or removal is even attempted.
C8_DryRunChangesNothing ==
    dry_run
    => /\ fs = fs0
       /\ pc \in {"idle", "start", "done"}
       /\ \A m \in log : m[2] \notin ChangeMessages

C8_Witness ==
    /\ run = "done"
    /\ dry_run
    /\ Len(calls) = 2
    /\ \E m \in log : m[2] = "[DRY RUN] Would create symbolic link"
    /\ \E m \in log : m[2] = "Corresponding file not found"

\* the files whose call ended in the error of the first rename
RenameFailedOn == { p \in Range(calls) : <<"ERROR", "Error deleting file", p>> \in log }

\* C16: when the rename of file_path to file_path + ".tmp" fails, the call
\* returns without raising and leaves file_path the regular file it was,
\* with its content; there is no symlink at file_path and no ".tmp" entry
\* that was not there before; the scan goes on, and a run with no other
\* failure still calls replace_one_file_with_symlink on every owned file.
C16_RenameFailureSkipsFile ==
    /\ \A p \in RenameFailedOn :
         /\ Lexists(fs, p)
         /\ EntryAt(fs, p).kind = "file"
         /\ EntryAt(fs, p) = EntryAt(fs0, p)
         /\ IF Lexists(fs0, TmpName(p))
            THEN Lexists(fs, TmpName(p)) /\ EntryAt(fs, TmpName(p)) = EntryAt(fs0, TmpName(p))
            ELSE ~Lexists(fs, TmpName(p))
         /\ file_path = p => pc = "done"
    /\ (run = "done" /\ failed = {"rename"} /\ Isdir(fs0, item))
         => Range(calls) = OwnedRegularFiles(fs0, item, user_uid)

C16_Witness ==
    /\ run = "done"
    /\ failed = {"rename"}
    /\ Len(calls) = 2
    /\ RenameFailedOn = {calls[1]}
    /\ EntryAt(fs, calls[1]).kind = "file"
    /\ ~Lexists(fs, TmpName(calls[1]))
    /\ <<"INFO", "Created symbolic link", calls[2]>> \in log
    /\ Islink(fs, calls[2])

\* C29: every path a scan yields names a regular file of the directory
\* tree rooted at item and contains no symbolic link on the way: it is the
\* file's own location below item.  This is claimed for every item
\* validate_paths accepts, a symbolic link to a directory included.
C29_YieldedPhysicallyInTree ==
    consumer = "list"
    => \A i \in DOMAIN yielded :
         /\ yielded[i] \in DOMAIN fs
         /\ fs[yielded[i]].kind = "file"
         /\ IsPrefix(item, yielded[i])
         /\ \A k \in 1..Len(yielded[i]) - 1 :
              fs[SubSeq(yielded[i], 1, k)].kind = "dir"

\* the marks of system calls that failed for an outside reason
OutsideFaults ==
    {"scandir", "entry", "rename", "makedirs", "symlink", "remove", "restore", "copy"}

NoOutsideFault == failed \cap OutsideFaults = {}

\* C23: in a run over a directory in which no system call fails for an
\* outside reason, replace_one_file_with_symlink is called exactly once on
\* each regular file owned by the user that was in the tree when the run
\* started, and on no other path, although the scan is interleaved with the
\* renames and symlink creations of the run.
C23_EachOwnedFileOnce ==
    (run = "done" /\ user_uid # NoUser /\ NoOutsideFault /\ Isdir(fs0, item))
    => /\ Range(calls) = OwnedRegularFiles(fs0, item, user_uid)
       /\ Len(calls) = Cardinality(Range(calls))

\* the entry a call on x alone leaves at x when nothing fails: the symlink
\* to the counterpart if there is one, the file as it was if not
AloneResult(x) ==
    LET t == LinkTarget(inputdata_root, target_dir, x)
    IN IF Exists(fs0, t) THEN Link(t, UserUid) ELSE fs0[x]

\* C24: when two files of a tree are replaced one after the other and no
\* system call fails for an outside reason, each of them ends as it ends
\* when it is replaced alone, whatever the order and whatever the other
\* file is, also when one is named as the other with ".tmp" appended.
C24_OrderIndependent ==
    (consumer = "sequence" /\ Len(calls) = Len(yielded) /\ pc = "done" /\ NoOutsideFault)
    => \A x \in Range(yielded) : Lexists(fs, x) /\ EntryAt(fs, x) = AloneResult(x)

\* both invocations have ended and no system call failed for an outside
\* reason in either; the file has a counterpart and the run is not a dry run
RaceOver ==
    /\ Ended
    /\ other.pc \in {"done", "raised"}
    /\ (failed \cup other.failed) \cap OutsideFaults = {}
    /\ Attempted

Created(l) == <<"INFO", "Created symbolic link", file_path>> \in l

RenameLost(l) == <<"ERROR", "Error deleting file", file_path>> \in l

\* file_path is a symlink to link_target and no file_path + ".tmp" is left
RaceEndState ==
    /\ Islink(fs, file_path)
    /\ Readlink(fs, file_path) = Prescribed
    /\ ~Lexists(fs, TmpName(file_path))

\* C26 as stated: under every interleaving of two invocations on the same
\* file the rename is a single-writer claim, so that exactly one invocation
\* creates the symlink, the other fails its rename and skips the file,
\* neither ends with an uncaught exception, and file_path ends as a symlink
\* to link_target with no file_path + ".tmp" left.
C26_Original ==
    RaceOver
    => /\ Created(log) # Created(other.log)
       /\ Created(log) => RenameLost(other.log)
       /\ Created(other.log) => RenameLost(log)
       /\ pc = "done" /\ other.pc = "done"
       /\ RaceEndState

\* C26, amended: under every interleaving of two invocations on the same
\* file in which no system call fails for an outside reason, file_path ends
\* as a symlink to link_target with no file_path + ".tmp" left, at least one
\* invocation creates the symlink, and an invocation that fails its rename
\* skips the file without raising.  The rename is no single-writer claim:
\* both invocations may create the symlink and one may end with the
\* uncaught OSError of the rename back.
C26_RaceEndsLinked ==
    RaceOver
    => /\ RaceEndState
       /\ Created(log) \/ Created(other.log)
       /\ RenameLost(log) => pc = "done" /\ ~Created(log)
       /\ RenameLost(other.log) => other.pc = "done" /\ ~Created(other.log)

\* the second invocation renamed the symlink the first had just created and
\* ended with the exception of the rename back
C26_Witness ==
    /\ RaceOver
    /\ pc = "done"
    /\ Created(log)
    /\ other.pc = "raised"
    /\ <<"INFO", "Deleted original file", file_path>> \in other.log
    /\ RaceEndState

----------------------------------------------------------------------------
(* Properties of stage_data (checked under SpecStage)                      *)

\* the staging path that corresponds to the source
StagedPath == Join(target_dir, Relpath(source, inputdata_root))

\* the first call has ended and no other call has started; fs0 is the file
\* system it started from
FirstCallDone == ncalls = 1 /\ spc = "idle" /\ Len(result) = 1

\* the source was a regular file, not a link, below the inputdata root
PlainUnderRoot ==
    /\ Lexists(fs0, source)
    /\ EntryAt(fs0, source).kind = "file"
    /\ IsPrefix(Abspath(inputdata_root), Abspath(source))

SourceLinkedToStaged ==
    /\ Islink(fs, source)
    /\ Exists(fs, source)
    /\ Realpath(fs, source) = Abspath(StagedPath)

\* C3: a plain file under the inputdata root whose staging path is missing
\* is, outside check mode and when no system call fails, copied to the
\* staging path (parent directories created) with its bytes, and replaced by
\* a symlink that resolves to the staging path.
C3_CopiesThenLinks ==
    (FirstCallDone /\ PlainUnderRoot /\ ~Exists(fs0, StagedPath) /\ ~check
        /\ failed = {})
    => /\ result[1] = "staged"
       /\ Isfile(fs, StagedPath)
       /\ EntryAt(fs, StagedPath).data = EntryAt(fs0, source).data
       /\ EntryAt(fs, StagedPath).meta = EntryAt(fs0, source).meta
       /\ Isdir(fs, Dirname(StagedPath))
       /\ SourceLinkedToStaged

C3_Witness ==
    /\ FirstCallDone
    /\ result[1] = "staged"
    /\ source = <<"/", "in", "d", "g">>
    /\ ~Exists(fs0, <<"/", "out", "d">>)
    /\ EntryAt(fs, <<"/", "out", "d", "g">>).data = "g-data"
    /\ Islink(fs, source)

SuccessOutcomes == {"staged", "linked", "already published and linked"}

\* C4: when a call of stage_data has succeeded, a second call on the same
\* source takes the already-published-and-linked branch and succeeds; it
\* makes no copy and no relink, and leaves the file system as the first call
\* left it.
C4_SecondRunIsNoOp ==
    (ncalls = 2 /\ result[1] \in SuccessOutcomes)
    => /\ fs = fs1
       /\ pc = "idle"
       /\ spc \in {"classify", "idle"}
       /\ copies = (IF result[1] = "staged" THEN 1 ELSE 0)
       /\ Len(result) = 2 => result[2] = "already published and linked"

C4_Witness ==
    /\ Len(result) = 2
    /\ result[1] = "staged"
    /\ result[2] = "already published and linked"
    /\ copies = 1
    /\ Islink(fs, source)

\* the source existed, was no symlink and was not below the inputdata root
OutsideInputdata ==
    /\ Lexists(fs0, source)
    /\ ~Islink(fs0, source)
    /\ ~IsPrefix(Abspath(inputdata_root), Abspath(source))

\* C9 as stated: every existing, non-symlink source that is not below the
\* inputdata root is rejected with "not under inputdata root" and nothing is
\* modified.
C9_Original ==
    (FirstCallDone /\ OutsideInputdata)
    => /\ result[1] = "not under inputdata root"
       /\ fs = fs0

\* C9 as amended: every existing, non-symlink source that is below neither
\* the inputdata root nor the staging root is rejected with "not under
\* inputdata root", whatever its name contains; one below the staging root is
\* rejected with "already under staging directory"; nothing is modified in
\* either case.
C9_RejectsOutsideInputdata ==
    (FirstCallDone /\ OutsideInputdata)
    => /\ result[1] = (IF IsPrefix(Abspath(target_dir), Abspath(source))
                       THEN "already under staging directory"
                       ELSE "not under inputdata root")
       /\ fs = fs0
       /\ copies = 0

C9_Witness ==
    /\ FirstCallDone
    /\ source = MarkerPath
    /\ OutsideInputdata
    /\ result[1] = "not under inputdata root"
    /\ fs = fs0

LiveLinkIntoStaging ==
    /\ Islink(fs0, source)
    /\ Exists(fs0, source)
    /\ IsPrefix(Realpath(fs0, target_dir), Realpath(fs0, source))

DownloadMessages ==
    {"File is available for download", "File is not (yet) available for download"}

\* C11: for a source that is a live symlink to any location below the
\* staging root, stage_data makes no copy, starts no relink and never changes
\* the file system; it ends with success as "already published and linked",
\* not with "already under staging directory", and this is so whichever of
\* the two download messages can_file_be_downloaded made it log.
C11_LiveLinkIsNoOp ==
    (ncalls = 1 /\ LiveLinkIntoStaging)
    => /\ fs = fs0
       /\ copies = 0
       /\ pc = "idle"
       /\ spc \in {"classify", "idle"}
       /\ FirstCallDone =>
            /\ result[1] = "already published and linked"
            /\ \E m \in log : m[2] \in DownloadMessages
            /\ \A m \in log : m[2] \in DownloadMessages
                                     \cup {"File is already published and linked"}

C11_Witness ==
    /\ FirstCallDone
    /\ source = <<"/", "in", "f">>
    /\ LiveLinkIntoStaging
    /\ Readlink(fs0, source) = <<"/", "out", "d", "g">>
    /\ Realpath(fs0, source) # Abspath(StagedPath)
    /\ result[1] = "already published and linked"
    /\ <<"INFO", "File is not (yet) available for download", source>> \in log
    /\ fs = fs0

\* C12: in check mode stage_data never copies and never relinks: whatever
\* the source is and however it is classified, also a plain file whose
\* staged copy exists, no copy is made, replace_one_file_with_symlink is not
\* entered, and the file system stays what it was before the call.
C12_CheckChangesNothing ==
    check
    => /\ fs = fs0
       /\ copies = 0
       /\ pc = "idle"
       /\ spc \in {"idle", "classify"}
       /\ \A m \in log : m[2] \notin ChangeMessages

C12_Witness ==
    /\ FirstCallDone
    /\ check
    /\ PlainUnderRoot
    /\ Exists(fs0, StagedPath)
    /\ result[1] = "checked"
    /\ EntryAt(fs, source) = EntryAt(fs0, source)
    /\ EntryAt(fs, source).kind = "file"
    /\ fs = fs0

\* the relink step was entered and replace_one_file_with_symlink returned
RelinkReturned == failed \cap {"copy", "restore"} = {}

\* C13: for a plain file under the inputdata root, outside check mode,
\* stage_data returns normally from the copy+relink or the relink-only
\* branch only with the source a symlink that resolves to the staging path;
\* when replace_one_file_with_symlink returns and the source is not such a
\* symlink, stage_data fails with "Error relinking during rimport", and a
\* copy it made is still at the staging path with the source's content.
C13_RelinkVerified ==
    (FirstCallDone /\ PlainUnderRoot /\ ~check)
    => /\ result[1] \in {"staged", "linked"} => SourceLinkedToStaged
       /\ (RelinkReturned /\ ~SourceLinkedToStaged)
            => /\ result[1] = "Error relinking during rimport"
               /\ Isfile(fs, StagedPath)
               /\ copies = 1 =>
                    /\ ~Exists(fs0, StagedPath)
                    /\ EntryAt(fs, StagedPath).data = EntryAt(fs0, source).data
                    /\ EntryAt(fs, StagedPath).meta = EntryAt(fs0, source).meta

C13_Witness ==
    /\ FirstCallDone
    /\ PlainUnderRoot
    /\ ~check
    /\ failed = {"symlink"}
    /\ copies = 1
    /\ result[1] = "Error relinking during rimport"
    /\ EntryAt(fs, source).kind = "file"
    /\ Isfile(fs, StagedPath)

----------------------------------------------------------------------------
(* Properties of rimport's batch loop (checked under SpecBatch)            *)

\* the positions of the list whose stage_data call raised
RaisedAt == { i \in DOMAIN result : Raises(result[i]) }

\* the files of the given positions, in list order
RECURSIVE FilesAt(_, _, _)
FilesAt(files, S, i) ==
    IF i > Len(files) THEN <<>>
    ELSE (IF i \in S THEN <<files[i]>> ELSE <<>>) \o FilesAt(files, S, i + 1)

\* C14: the batch loop calls stage_data once for each file of the list, in
\* list order, whatever number of earlier calls raised; each raising call
\* leaves exactly one "error processing" line on stderr, naming its file;
\* main() returns 1 when some call raised and 0 when none did.
C14_BatchContinuesOnError ==
    /\ batch.called = SubSeq(batch.files, 1, Len(batch.called))
    /\ batch.code # Running =>
         /\ batch.called = batch.files
         /\ Len(result) = Len(batch.files)
         /\ batch.stderr =
              [i \in 1..Cardinality(RaisedAt) |->
                 <<"error processing", FilesAt(batch.files, RaisedAt, 1)[i]>>]
         /\ batch.code = (IF RaisedAt # {} THEN 1 ELSE 0)

C14_Witness ==
    /\ batch.code = 1
    /\ Len(batch.files) = 3
    /\ Raises(result[1])
    /\ ~Raises(result[2])
    /\ Raises(result[3])
    /\ Len(batch.stderr) = 2
    /\ copies = 1

----------------------------------------------------------------------------
(* Properties of relink's main() (checked under SpecMain)                  *)

\* the arguments were accepted and the loop over the items was entered
LoopEntered == cli.at = "loop" \/ (cli.at = "exit" /\ cli.error \in {"", "OSError"})

\* the per-file errors: an access error during the scan, a failed rename, a
\* failed creation of the symlink
PerFileErrors == {"scandir", "entry", "rename", "makedirs", "symlink"}

\* C15: a run of relink in which some file met a per-file error still hands
\* every item to replace_files_with_symlinks and ends with a non-zero exit
\* status; a run without such an error ends with exit status 0.
C15_ErrorsGiveNonZeroExit ==
    (cli.at = "exit" /\ LoopEntered)
    => /\ cli.done = Len(cli.items)
       /\ failed \cap PerFileErrors # {} => cli.code # 0
       /\ failed = {} => cli.code = 0

\* every argument passes its type function: the items exist, the two roots
\* are existing directories
ArgsValid ==
    /\ \A i \in DOMAIN cli.items : Exists(fs0, cli.items[i])
    /\ Isdir(fs0, cli.target_root)
    /\ Isdir(fs0, cli.inputdata_root)

\* some item is neither the inputdata root nor below it
SomeItemOutside ==
    \E i \in DOMAIN cli.items :
       ~IsPrefix(Abspath(cli.inputdata_root), Abspath(cli.items[i]))

\* the target root is the inputdata root or below it
TargetUnderRoot == IsPrefix(Abspath(cli.inputdata_root), Abspath(cli.target_root))

\* the inputdata root is strictly below the target root
RootUnderTarget ==
    /\ IsPrefix(Abspath(cli.target_root), Abspath(cli.inputdata_root))
    /\ Abspath(cli.target_root) # Abspath(cli.inputdata_root)

\* no item was handed to replace_files_with_symlinks, nothing was scanned,
\* no file was renamed, linked or removed
NothingProcessed ==
    /\ fs = fs0
    /\ cli.at # "loop"
    /\ cli.done = 0
    /\ run = "idle"
    /\ pc = "idle"
    /\ stack = <<>>
    /\ yielded = <<>>
    /\ calls = <<>>
    /\ log = {}

\* C18: when some item is neither the inputdata root nor below it, the run
\* ends in a configuration error with a non-zero status and nothing is ever
\* processed, also no file of a valid item listed before the offending one;
\* when the arguments name existing paths the error is "not under
\* inputdata root".
C18_ItemOutsideFailsFirst ==
    SomeItemOutside
    => /\ NothingProcessed
       /\ cli.at = "exit" =>
            /\ cli.code \notin {0, Running}
            /\ ArgsValid => cli.error = "not under inputdata root"

C18_Witness ==
    /\ cli.at = "exit"
    /\ cli.items = << InRoot, ExtRoot >>
    /\ cli.inputdata_root = InRoot
    /\ cli.target_root = OutRoot
    /\ ~dry_run
    /\ Exists(fs0, <<"/", "out", "f">>)
    /\ cli.error = "not under inputdata root"
    /\ Isfile(fs, <<"/", "in", "f">>) /\ ~Islink(fs, <<"/", "in", "f">>)

\* C19 as stated: files are scanned or replaced only when the target root is
\* neither the inputdata root nor below it; otherwise, for arguments that
\* name existing paths, the run ends with "must not be under inputdata root"
\* and nothing is processed.
C19_Original ==
    (ArgsValid /\ TargetUnderRoot)
    => /\ NothingProcessed
       /\ cli.at = "exit" => cli.error = "must not be under inputdata root"

\* C19 as amended: files are scanned or replaced only when the target root
\* is neither the inputdata root nor below it; otherwise, for arguments
\* that name existing paths, the run ends with a non-zero status and
\* nothing is processed, the error being "must not be under inputdata root"
\* when every item is under the inputdata root and "not under inputdata
\* root" when some item is not.
C19_TargetUnderRootRejected ==
    TargetUnderRoot
    => /\ NothingProcessed
       /\ (cli.at = "exit" /\ ArgsValid) =>
            /\ cli.code \notin {0, Running}
            /\ cli.error = (IF SomeItemOutside THEN "not under inputdata root"
                            ELSE "must not be under inputdata root")

C19_Witness ==
    /\ cli.at = "exit"
    /\ cli.items = << InRoot >>
    /\ cli.inputdata_root = InRoot
    /\ cli.target_root = InRoot
    /\ cli.error = "must not be under inputdata root"
    /\ NothingProcessed

\* C20 as stated: for arguments that name existing paths, the core never
\* runs when the two roots overlap: the target root under the inputdata
\* root, the inputdata root under the target root, or both equal.
C20_Original ==
    (ArgsValid /\ (TargetUnderRoot \/ RootUnderTarget)) => NothingProcessed

\* C20 as amended: for arguments that name existing paths, the core runs
\* exactly when every item is under the inputdata root and the target root
\* is neither the inputdata root nor below it; an inputdata root strictly
\* below the target root does not stop the run.
C20_OverlapRejectedOneWay ==
    (ArgsValid /\ cli.at # "args")
    => (LoopEntered <=> (~SomeItemOutside /\ ~TargetUnderRoot))

C20_Witness ==
    /\ cli.at = "exit"
    /\ cli.code = 0
    /\ RootUnderTarget
    /\ cli.target_root = Root
    /\ cli.inputdata_root = InRoot
    /\ Len(calls) > 0

----------------------------------------------------------------------------
(* Properties of read_filelist (checked under SpecList)                    *)

\* the positions of the text at which a line starts
LineStarts(t) == { i \in 1..Len(t) : i = 1 \/ t[i - 1] = NL }

\* the position of the last character of the line that starts at i
LineEnd(t, i) ==
    CHOOSE j \in (i - 1)..Len(t) :
       /\ \A k \in i..j : t[k] # NL
       /\ j = Len(t) \/ t[j + 1] = NL

\* the positions of the characters of that line that are no whitespace
Inked(t, i) == { k \in i..LineEnd(t, i) : ~IsSpace(t[k]) }

Min(S) == CHOOSE x \in S : \A y \in S : x <= y
Max(S) == CHOOSE x \in S : \A y \in S : x >= y

\* the starts of the lines that are neither blank nor comments
KeptStarts(t) ==
    { i \in LineStarts(t) : Inked(t, i) # {} /\ t[Min(Inked(t, i))] # "#" }

\* the members of a set of numbers in increasing order
RECURSIVE Sorted(_)
Sorted(S) == IF S = {} THEN <<>> ELSE <<Min(S)>> \o Sorted(S \ {Min(S)})

\* C21: read_filelist returns, in the order of the file, the lines that have
\* a character other than whitespace whose first such character is not "#",
\* each from its first to its last such character; a file without such a
\* line gives the empty list.
C21_KeptLinesStripped ==
    filelist.at = "done"
    => LET t == filelist.text
           starts == Sorted(KeptStarts(t))
       IN /\ Len(filelist.out) = Len(starts)
          /\ \A n \in DOMAIN starts :
               filelist.out[n] =
                 SubSeq(t, Min(Inked(t, starts[n])), Max(Inked(t, starts[n])))

C21_Witness ==
    /\ filelist.at = "done"
    /\ filelist.text = <<"#", NL, " ", "a", " ">>
    /\ filelist.out = << <<"a">> >>

\* the second of two runs of replace_files_with_symlinks on the same item,
\* with the same roots and user, no system call having failed so far
SecondRun ==
    /\ cli.at = "loop"
    /\ cli.done = 2
    /\ cli.items[1] = cli.items[2]
    /\ failed = {}

\* C30: a second run on the same tree, with no step failing, leaves the file
\* system exactly as the first run left it: no step of the second run
\* changes anything, and the only files it calls
\* replace_one_file_with_symlink on are regular files without a counterpart,
\* which stay as they are; the symlinks made by the first run are skipped.
C30_SecondRunChangesNothing ==
    [][ SecondRun
        => /\ fs' = fs
           /\ calls' # calls
                => /\ EntryAt(fs, file_path').kind = "file"
                   /\ ~Exists(fs, LinkTarget(inputdata_root, target_dir, file_path')) \/ dry_run
      ]_vars

\* two runs on /in have ended: /in/d/g was replaced by the first and not
\* passed again, /in/f has no counterpart and was passed by both
C30_Witness ==
    /\ cli.at = "exit"
    /\ cli.code = 0
    /\ cli.items = <<InRoot, InRoot>>
    /\ failed = {}
    /\ ~dry_run
    /\ Len(calls) = 3
    /\ Cardinality({ i \in DOMAIN calls : calls[i] = <<"/", "in", "d", "g">> }) = 1
    /\ Islink(fs, <<"/", "in", "d", "g">>)
    /\ fs[<<"/", "in", "f">>] = fs0[<<"/", "in", "f">>]
====
